---------------------------- MODULE Spec2Model ----------------------------
(***************************************************************************)
(* A model of uber-compiler (src/index.js): the UberCompiler object, the   *)
(* file-system facts it reads, the three external collaborators it starts  *)
(* (the soy transpiler, the closure compiler, the less processor), the     *)
(* fs.watchFile subscriptions and the debounce timer.                      *)
(*                                                                         *)
(* Representation.  A file name is a sequence of one-character strings, a  *)
(* path is the sequence of its segments, and time is counted in ticks;     *)
(* the 500 ms debounce of onFileChange_ is Debounce ticks.  A timer may    *)
(* fire late but never early.  Following the collaborator contract, every  *)
(* collaborator returns asynchronously: an invocation is in flight from    *)
(* the exec / less.render call until its callback runs, and any number of  *)
(* steps may lie in between.  A collaborator fails by reporting a          *)
(* diagnostic (stderr output, or err of less.render).  The shell command   *)
(* "rm soy.js" of the compile callback touches nothing the model reads.    *)
(* run() is called once on a new object; terminate() may follow it.        *)
(*                                                                         *)
(* Specifications.  Spec is the watching coordinator; LiveSpec is Spec     *)
(* with a completion callback and the scheduling of the event loop;        *)
(* BuildSpec is the command-line build run again and again; HashSpec       *)
(* constructs coordinators with fingerprinted artifact names; WatchSpec    *)
(* delivers the calls of the fs.watchFile listeners one by one.            *)
(***************************************************************************)
EXTENDS Integers, Sequences, FiniteSets, TLC

(***************************************************************************)
(* Bounds of the model.                                                    *)
(***************************************************************************)
Horizon == 2
MaxChanges == 2

(* The modification times on the disk when the process starts, which is   *)
(* at the latest of them.                                                  *)
InitTimes == {1, 2}
StartTime == CHOOSE t \in InitTimes : \A u \in InitTimes : u <= t
MaxTime == StartTime + Horizon

(* setTimeout(..., 500) of onFileChange_, in ticks. *)
Debounce == 2

(***************************************************************************)
(* Names, paths and the file tree.                                         *)
(***************************************************************************)
NameJsDir == <<"j", "s">>
NameCssDir == <<"c", "s", "s">>
NameA == <<"a", ".", "j", "s">>
NameT == <<"t", ".", "s", "o", "y">>
NameS == <<"s", ".", "l", "e", "s", "s">>

JsDir == <<NameJsDir>>
CssDir == <<NameCssDir>>
FileA == <<NameJsDir, NameA>>
FileT == <<NameJsDir, NameT>>
FileS == <<NameCssDir, NameS>>

SourceFiles == {FileA, FileT, FileS}

(* More of the disk: a backup copy ._b.js, a directory named ._ holding    *)
(* c.js, and a path that does not exist.                                   *)
NameB == <<".", "_", "b", ".", "j", "s">>
NameDot == <<".", "_">>
NameC == <<"c", ".", "j", "s">>
NameLost == <<"l", "o", "s", "t">>

FileB == <<NameJsDir, NameB>>
DotDir == <<NameJsDir, NameDot>>
FileC == <<NameJsDir, NameDot, NameC>>
LostDir == <<NameLost>>

(* Inputs of the closure compiler that are not scanned: the two files of   *)
(* third-party/ and path.join(outputDir, 'soy.js').                        *)
checksJsPath == <<<<"third-party/checks.js">>>>
soyutilsJsPath == <<<<"third-party/soy-2021-02-01-soyutils_usegoog.js">>>>
soyJsPath == <<<<"soy.js">>>>

ExtJs == {<<"j", "s">>}
ExtSoy == {<<"s", "o", "y">>}
ExtJsSoy == ExtJs \cup ExtSoy
ExtCssLess == {<<"c", "s", "s">>, <<"l", "e", "s", "s">>}
ExtWatched == ExtJsSoy \cup ExtCssLess

(* The directory tree: the entries of a directory are in readdir order,   *)
(* which is not sorted.                                                    *)
TreeWith(soy) ==
    (JsDir :> [isDir |-> TRUE,
               names |-> IF soy THEN <<NameT, NameA>> ELSE <<NameA>>])
    @@ (CssDir :> [isDir |-> TRUE, names |-> <<NameS>>])
    @@ (FileA :> [isDir |-> FALSE, names |-> <<>>])
    @@ (FileS :> [isDir |-> FALSE, names |-> <<>>])
    @@ (IF soy THEN (FileT :> [isDir |-> FALSE, names |-> <<>>])
               ELSE <<>>)

(* The same tree with the backup copy and the directory named ._ in js/. *)
BigTreeWith(soy) ==
    (JsDir :> [isDir |-> TRUE,
               names |-> IF soy THEN <<NameT, NameB, NameA, NameDot>>
                                ELSE <<NameB, NameA, NameDot>>])
    @@ (FileB :> [isDir |-> FALSE, names |-> <<>>])
    @@ (DotDir :> [isDir |-> TRUE, names |-> <<NameC>>])
    @@ (FileC :> [isDir |-> FALSE, names |-> <<>>])
    @@ TreeWith(soy)

(* String.prototype.charCodeAt for the characters the model uses. *)
charCodeAt(c) ==
    CASE c = "." -> 46 [] c = "/" -> 47 [] c = "_" -> 95
      [] c = "a" -> 97 [] c = "b" -> 98 [] c = "c" -> 99 [] c = "e" -> 101
      [] c = "j" -> 106 [] c = "l" -> 108 [] c = "o" -> 111
      [] c = "s" -> 115 [] c = "t" -> 116 [] c = "y" -> 121
      [] c = "d" -> 100 [] c = "h" -> 104 [] c = "m" -> 109
      [] c = "n" -> 110 [] c = "p" -> 112
      [] c = "A" -> 65 [] c = "C" -> 67 [] c = "E" -> 69 [] c = "H" -> 72
      [] c = "I" -> 73 [] c = "L" -> 76 [] c = "M" -> 77 [] c = "N" -> 78
      [] c = "O" -> 79 [] c = "P" -> 80 [] c = "Q" -> 81 [] c = "S" -> 83
      [] c = "T" -> 84 [] c = "U" -> 85 [] c = "W" -> 87 [] c = "Y" -> 89
      [] c = "Z" -> 90
      [] OTHER -> 0

(* The order of Array.prototype.sort() on strings: by code unit. *)
RECURSIVE StrLess(_, _)
StrLess(s, t) ==
    IF t = <<>> THEN FALSE
    ELSE IF s = <<>> THEN TRUE
    ELSE IF charCodeAt(Head(s)) # charCodeAt(Head(t))
         THEN charCodeAt(Head(s)) < charCodeAt(Head(t))
    ELSE StrLess(Tail(s), Tail(t))

RECURSIVE Insert(_, _)
Insert(x, sorted) ==
    IF sorted = <<>> THEN <<x>>
    ELSE IF StrLess(Head(sorted), x) \/ Head(sorted) = x
         THEN <<Head(sorted)>> \o Insert(x, Tail(sorted))
    ELSE <<x>> \o sorted

(* The names left in readdir order. *)
SortNone(names) == names

RECURSIVE Sort(_)
Sort(names) ==
    IF names = <<>> THEN <<>> ELSE Insert(Head(names), Sort(Tail(names)))

(* path.join of the segments, as the string the patterns are matched on. *)
RECURSIVE PathStr(_)
PathStr(p) ==
    IF p = <<>> THEN <<>> ELSE <<"/">> \o Head(p) \o PathStr(Tail(p))

(* getFileExtensionRegex: "^.*\.(exts)$" in a JavaScript string literal is *)
(* the pattern ^.*.(exts)$, so the character before the extension is any   *)
(* character.                                                              *)
Matches(str, exts) ==
    \E e \in exts :
        /\ Len(str) >= Len(e) + 1
        /\ SubSeq(str, Len(str) - Len(e) + 1, Len(str)) = e

(* The test of findFiles for a backup name. *)
IsBackup(name) ==
    Len(name) > 2 /\ SubSeq(name, 1, 2) = <<".", "_">>


(***************************************************************************)
(* State.                                                                  *)
(***************************************************************************)
VARIABLES
    jsPaths,            \* options.jsPaths
    externPaths,        \* options.externPaths
    cssPaths,           \* options.cssPaths
    dontWatchFiles,     \* options.dontWatchFiles
    endCallback,        \* TRUE iff options.endCallback is a function
    tree,               \* the directory tree
    mtime,              \* modification time of every path of the tree
    artifactJs,         \* modification time of outputDir/<name>.js, 0 = absent
    artifactCss,        \* modification time of outputDir/<name>.css, 0 = absent
    now,                \* the current time
    phase,              \* "new", "run" (run() was called), "terminated"
    compilingJs_,       \* this.compilingJs_
    compilingCss_,      \* this.compilingCss_
    files,              \* this.files: the watched paths
    fileChangedJs,      \* this.fileChangedJs
    fileChangedCss,     \* this.fileChangedCss
    fileChangedTimer,   \* this.fileChangedTimer: its deadline, 0 = null
    fileChangeMap,      \* this.fileChangeMap, 0 = undefined
    findPending,        \* roots whose `find` of watch_ has not called back
    soyInFlight,        \* soy transpiler invocations awaiting their callback
    jsInFlight,         \* closure compiler invocations awaiting their callback
    cssInFlight,        \* less.render invocations awaiting their callback
    endCalls,           \* history: number of endCallback() invocations
    endFrom,            \* history: the operation that last invoked endCallback
    startedSinceEnd,    \* history: a busy flag went from false to true since
                        \* the last endCallback() invocation
    burstJs,            \* history: arrival times of the accepted js-kind
                        \* changes not yet followed by a pipeline start
    burstCss,           \* history: the same for the css kind
    lastFire,           \* history: what the last debounce callback found
    pendingAtTeardown,  \* history: the pending debounce timer was armed
                        \* before terminate() was called
    changes,            \* history: number of file changes so far
    soyCmd,             \* the --srcs of the soy commands in flight
    jsCmd,              \* the --externs and --js of the closure compiler
                        \* commands in flight
    cssData,            \* the files read for the less.render calls in flight
    moduleName,         \* options.moduleName
    debug,              \* TRUE iff options.debug is truthy
    useHash,            \* options.useHash
    hash,               \* this.hash: <<>> is '', <<n>> the number n
    previous,           \* history: the coordinator that the last call of
                        \* the constructor replaced, <<>> = none
    notifications       \* the calls (curr, prev) of listeners of
                        \* fs.watchFile that one change of a stat has left
                        \* to make

config == <<jsPaths, externPaths, cssPaths, dontWatchFiles, endCallback, tree>>
disk == <<mtime, artifactJs, artifactCss>>
flags == <<compilingJs_, compilingCss_>>
watcher == <<files, fileChangedJs, fileChangedCss, fileChangedTimer,
             fileChangeMap, findPending>>
inflight == <<soyInFlight, jsInFlight, cssInFlight>>
ends == <<endCalls, endFrom>>
bursts == <<burstJs, burstCss>>
fires == <<lastFire, pendingAtTeardown>>
cmds == <<soyCmd, jsCmd, cssData>>
named == <<moduleName, debug, useHash, hash, previous>>
vars == <<config, disk, now, phase, flags, watcher, inflight, ends,
          startedSinceEnd, bursts, fires, changes, cmds, named,
          notifications>>

Range(s) == {s[i] : i \in 1..Len(s)}

(***************************************************************************)
(* The fingerprint namer.  A JavaScript number is kept exactly as two      *)
(* parts, value = hi * 2^16 + lo with lo in 0..65535, so that no sum or    *)
(* product leaves the range of the integers of the checker.                *)
(***************************************************************************)
Salt == 275329
MinInt32 == -2147483647 - 1
MaxInt32 == 2147483647

outputDir == <<"/", "t", "m", "p", "/">>
DefaultModuleName == <<"c", "a", "c", "h", "e", "d">>
WhitespaceOnly ==
    <<"W", "H", "I", "T", "E", "S", "P", "A", "C", "E", "_", "O", "N", "L",
      "Y">>
SimpleOptimizations ==
    <<"S", "I", "M", "P", "L", "E", "_", "O", "P", "T", "I", "M", "I", "Z",
      "A", "T", "I", "O", "N", "S">>
warningLevel == <<"Q", "U", "I", "E", "T">>

Wide(n) == [hi |-> n \div 65536, lo |-> n % 65536]

(* ToInt32: the value modulo 2^32 in the signed range. *)
ToInt32(w) == (((w.hi + 32768) % 65536) - 32768) * 65536 + w.lo

(* hash << 5 *)
ShiftLeft5(n) ==
    ToInt32([hi |-> Wide(n).hi * 32 + (Wide(n).lo * 32) \div 65536,
             lo |-> (Wide(n).lo * 32) % 65536])

(* a - b + code, exact. *)
MinusPlus(a, b, code) ==
    LET d == Wide(a).lo - Wide(b).lo + code
    IN  [hi |-> Wide(a).hi - Wide(b).hi + d \div 65536, lo |-> d % 65536]

(* The loop body with hash << 4. *)
addCodeShift4_(n, code) ==
    LET shifted == ToInt32([hi |-> Wide(n).hi * 16
                                   + (Wide(n).lo * 16) \div 65536,
                            lo |-> (Wide(n).lo * 16) % 65536])
    IN  ToInt32(MinusPlus(shifted, n, code))

(* The body of the loop of addToHash_:                                     *)
(* hash = ((hash << 5) - hash) + code; hash = hash & hash.                 *)
addCode_(n, code) == ToInt32(MinusPlus(ShiftLeft5(n), n, code))

(* The values hash takes in the loop of addToHash_(n, text), one after     *)
(* each of the first k characters.                                         *)
RECURSIVE hashes_(_, _, _)
hashes_(n, text, k) ==
    IF k = 0 THEN <<>>
    ELSE LET h == hashes_(n, text, k - 1)
         IN  Append(h, addCode_(IF k = 1 THEN n ELSE h[k - 1],
                                charCodeAt(text[k])))

addToHash_(n, text) ==
    IF text = <<>> THEN n ELSE hashes_(n, text, Len(text))[Len(text)]

(* The values of the properties of an object, by their typeof. *)
Str(text) == [typeof |-> "string", value |-> text]
Bool(b) == [typeof |-> "boolean", value |-> b]
Arr(a) == [typeof |-> "object", value |-> a]

PathStrs(paths) == [i \in 1..Len(paths) |-> PathStr(paths[i])]

(* The own properties with endCallback among those already assigned. *)
thisWithCallback_(js, ext, css, name, dbg, uh, dw, cb) ==
    <<Arr(PathStrs(js)), Arr(PathStrs(ext)), Arr(PathStrs(css)),
      Str(outputDir), Str(name), Bool(uh), Bool(dw),
      Str(IF dbg THEN WhitespaceOnly ELSE SimpleOptimizations),
      Bool(dbg), Bool(~dbg), Str(warningLevel), Arr(<<>>), Bool(cb)>>

(* The own properties of the object when the constructor calls getHash_,   *)
(* in the order they were assigned: endCallback and the watcher fields are *)
(* assigned after the call and this.files is still empty.                  *)
this_(js, ext, css, name, dbg, uh, dw, cb) ==
    <<Arr(PathStrs(js)), Arr(PathStrs(ext)), Arr(PathStrs(css)),
      Str(outputDir), Str(name), Bool(uh), Bool(dw),
      Str(IF dbg THEN WhitespaceOnly ELSE SimpleOptimizations),
      Bool(dbg), Bool(~dbg), Str(warningLevel), Arr(<<>>)>>

Last(h) == h[Len(h)]

(* The strings of an array added with a comma after each. *)
RECURSIVE arrayHashesJoined_(_, _, _)
arrayHashesJoined_(n, arr, k) ==
    IF k = 0 THEN <<>>
    ELSE LET h == arrayHashesJoined_(n, arr, k - 1)
         IN  h \o hashes_(IF h = <<>> THEN n ELSE Last(h),
                          arr[k] \o <<",">>, Len(arr[k]) + 1)

(* for (var i in arr) of getHash_: the values hash takes while the first k *)
(* strings of arr are added to n, one call of addToHash_ for each string.  *)
RECURSIVE arrayHashes_(_, _, _)
arrayHashes_(n, arr, k) ==
    IF k = 0 THEN <<>>
    ELSE LET h == arrayHashes_(n, arr, k - 1)
         IN  h \o hashes_(IF h = <<>> THEN n ELSE Last(h), arr[k],
                          Len(arr[k]))

(* for (var property in this) of getHash_: the salt and the values hash    *)
(* takes while the first k properties are visited.                         *)
RECURSIVE propertyHashes_(_, _)
propertyHashes_(props, k) ==
    IF k = 0 THEN <<Salt>>
    ELSE LET h == propertyHashes_(props, k - 1)
             p == props[k]
         IN  h \o CASE p.typeof = "object" ->
                         arrayHashes_(Last(h), p.value, Len(p.value))
                    [] p.typeof = "boolean" ->
                         hashes_(Last(h),
                                 IF p.value THEN <<"Y">> ELSE <<"n">>, 1)
                    [] p.typeof = "string" ->
                         hashes_(Last(h), p.value, Len(p.value))
                    [] OTHER -> <<>>

getHash_(props) == Last(propertyHashes_(props, Len(props)))

(* this.hash = (this.useHash ? this.getHash_() : '') *)
newHash_(js, ext, css, name, dbg, uh, dw, cb) ==
    IF uh THEN <<getHash_(this_(js, ext, css, name, dbg, uh, dw, cb))>>
    ELSE <<>>

(***************************************************************************)
(* Source Scanner.                                                         *)
(***************************************************************************)
RECURSIVE findFiles(_, _)
RECURSIVE findFilesIn(_, _, _)

(* The loop of findFiles over the sorted names of a directory. *)
findFilesIn(searchPath, fileNames, fileExtensionPattern) ==
    IF fileNames = <<>> THEN <<>>
    ELSE (IF IsBackup(Head(fileNames)) THEN <<>>
          ELSE findFiles(Append(searchPath, Head(fileNames)),
                         fileExtensionPattern))
         \o findFilesIn(searchPath, Tail(fileNames), fileExtensionPattern)

findFiles(searchPath, fileExtensionPattern) ==
    IF searchPath \notin DOMAIN tree THEN <<>>
    ELSE IF tree[searchPath].isDir
         THEN findFilesIn(searchPath, Sort(tree[searchPath].names),
                          fileExtensionPattern)
    ELSE IF Matches(PathStr(searchPath), fileExtensionPattern)
         THEN <<searchPath>>
    ELSE <<>>

(* The concatenation given up at the first root that cannot be stat-ed. *)
RECURSIVE findAllAbort(_, _)
findAllAbort(paths, fileExtensionPattern) ==
    IF paths = <<>> THEN <<>>
    ELSE IF Head(paths) \notin DOMAIN tree THEN <<>>
    ELSE findFiles(Head(paths), fileExtensionPattern)
         \o findAllAbort(Tail(paths), fileExtensionPattern)

(* for each root: files = files.concat(findFiles(root, pattern)) *)
RECURSIVE findAll(_, _)
findAll(paths, fileExtensionPattern) ==
    IF paths = <<>> THEN <<>>
    ELSE findFiles(Head(paths), fileExtensionPattern)
         \o findAll(Tail(paths), fileExtensionPattern)

(* `find root | grep -E ".(js|soy|css|less)$"` of watch_: every path under *)
(* the root, the root and directories included, in readdir order.          *)
RECURSIVE findGrep(_)
RECURSIVE findGrepIn(_, _)

findGrepIn(searchPath, fileNames) ==
    IF fileNames = <<>> THEN <<>>
    ELSE findGrep(Append(searchPath, Head(fileNames)))
         \o findGrepIn(searchPath, Tail(fileNames))

findGrep(searchPath) ==
    IF searchPath \notin DOMAIN tree THEN <<>>
    ELSE (IF Matches(PathStr(searchPath), ExtWatched) THEN <<searchPath>>
          ELSE <<>>)
         \o (IF tree[searchPath].isDir
             THEN findGrepIn(searchPath, tree[searchPath].names)
             ELSE <<>>)

(***************************************************************************)
(* Staleness Oracle.                                                       *)
(***************************************************************************)
shouldCompileOld_(inputPaths, outputTime, fileExtensions) ==
    IF outputTime = 0 THEN TRUE
    ELSE \E f \in Range(findAll(inputPaths, fileExtensions)) :
            mtime[f] > outputTime

(* shouldCompile_ counting an input as old as the artifact as newer. *)
shouldCompileAtLeast_(inputPaths, outputTime, fileExtensions) ==
    IF inputPaths = <<>> THEN FALSE
    ELSE IF outputTime = 0 THEN TRUE
    ELSE \E f \in Range(findAll(inputPaths, fileExtensions)) :
            mtime[f] >= outputTime

shouldCompile_(inputPaths, outputTime, fileExtensions) ==
    IF inputPaths = <<>> THEN FALSE
    ELSE IF outputTime = 0 THEN TRUE
    ELSE \E f \in Range(findAll(inputPaths, fileExtensions)) :
            mtime[f] > outputTime

(* The files of one root path that the inner loop of shouldCompile_ hands  *)
(* to fs.statSync: all up to and including the first one newer than the    *)
(* artifact.                                                               *)
RECURSIVE statUntilNewer_(_, _)
statUntilNewer_(found, outputTime) ==
    IF found = <<>> THEN <<>>
    ELSE IF mtime[Head(found)] > outputTime THEN <<Head(found)>>
    ELSE <<Head(found)>> \o statUntilNewer_(Tail(found), outputTime)

(* The calls of fs.statSync on input files that shouldCompile_ makes, in   *)
(* order: the break leaves the loop over the files of one root path, and   *)
(* the loop over the root paths goes on.                                   *)
RECURSIVE statSyncs_(_, _, _)
statSyncs_(inputPaths, outputTime, fileExtensions) ==
    IF inputPaths = <<>> \/ outputTime = 0 THEN <<>>
    ELSE statUntilNewer_(findFiles(Head(inputPaths), fileExtensions),
                         outputTime)
         \o statSyncs_(Tail(inputPaths), outputTime, fileExtensions)

shouldCompileJs_ == shouldCompile_(jsPaths, artifactJs, ExtJsSoy)

shouldCompileCss_ == shouldCompile_(cssPaths, artifactCss, ExtCssLess)

(***************************************************************************)
(* Pipeline Coordinator.                                                   *)
(***************************************************************************)
checkEndJsOnly_(js, css, n) ==
    IF ~js /\ endCallback THEN n + 1 ELSE n

(* checkEnd_: the number of endCallback() invocations after the check. *)
checkEnd_(js, css, n) ==
    IF ~js /\ ~css /\ endCallback THEN n + 1 ELSE n

(* compileJsFinal_ up to its exec: the shell of childProcess.exec opens    *)
(* the redirection target "> outputDir/<name>.js" when the command starts. *)
compileJsFinal_(soyJs) ==
    /\ jsCmd' = [externs |-> findAll(externPaths, ExtJs),
                 js |-> findAll(jsPaths, ExtJs)
                        \o (IF soyJs # <<>>
                            THEN <<checksJsPath, soyutilsJsPath, soyJs>>
                            ELSE <<>>)]
    /\ jsInFlight' = jsInFlight + 1
    /\ artifactJs' = now

(* compileJs_ without the transpile stage. *)
compileJsNoSoy_ ==
    /\ compilingJs_' = TRUE
    /\ compileJsFinal_(<<>>)
    /\ UNCHANGED <<soyInFlight, soyCmd>>

(* compileJs_ up to its exec. *)
compileJs_ ==
    /\ compilingJs_' = TRUE
    /\ IF findAll(jsPaths, ExtSoy) # <<>>
       THEN /\ soyCmd' = findAll(jsPaths, ExtSoy)
            /\ soyInFlight' = soyInFlight + 1
            /\ UNCHANGED <<jsInFlight, artifactJs, jsCmd>>
       ELSE /\ compileJsFinal_(<<>>)
            /\ UNCHANGED <<soyInFlight, soyCmd>>

(* compileCss_ up to less.render. *)
compileCss_ ==
    /\ compilingCss_' = TRUE
    /\ cssData' = findAll(cssPaths, ExtCssLess)
    /\ cssInFlight' = cssInFlight + 1

(* No command of the collaborator is in flight. *)
noCmd == [externs |-> <<>>, js |-> <<>>]

untouchedJs ==
    UNCHANGED <<compilingJs_, soyInFlight, jsInFlight, artifactJs, soyCmd,
                jsCmd>>
untouchedCss == UNCHANGED <<compilingCss_, cssInFlight, cssData>>


(* History: which operation invoked endCallback, and whether a busy flag   *)
(* rose since the last invocation.                                         *)
Noted(op) ==
    /\ endFrom' = IF endCalls' # endCalls THEN op ELSE endFrom
    /\ startedSinceEnd' =
          IF endCalls' # endCalls THEN FALSE
          ELSE \/ startedSinceEnd
               \/ ~compilingJs_ /\ compilingJs_'
               \/ ~compilingCss_ /\ compilingCss_'

JsFlying == soyInFlight + jsInFlight
AllFlying == soyInFlight + jsInFlight + cssInFlight

(* The default module name and no fingerprint. *)
Unnamed ==
    /\ moduleName = DefaultModuleName
    /\ debug = FALSE
    /\ useHash = FALSE
    /\ hash = newHash_(jsPaths, externPaths, cssPaths, moduleName, debug,
                       useHash, dontWatchFiles, endCallback)
    /\ previous = <<>>
    /\ notifications = <<>>

(* The configurations and disks the model starts from. *)
Init ==
    /\ jsPaths \in {<<>>, <<JsDir>>}
    /\ externPaths = <<>>
    /\ cssPaths \in {<<>>, <<CssDir>>}
    /\ dontWatchFiles \in BOOLEAN
    /\ endCallback \in BOOLEAN
    /\ tree \in {TreeWith(FALSE), TreeWith(TRUE)}
    /\ mtime \in [DOMAIN tree -> InitTimes]
    /\ \A p \in DOMAIN tree : p # FileA => mtime[p] = 1
    /\ artifactJs \in {0} \cup InitTimes
    /\ artifactCss \in {0, StartTime}
    /\ now = StartTime
    /\ phase = "new"
    /\ compilingJs_ = FALSE
    /\ compilingCss_ = FALSE
    /\ files = <<>>
    /\ fileChangedJs = FALSE
    /\ fileChangedCss = FALSE
    /\ fileChangedTimer = 0
    /\ fileChangeMap = [p \in DOMAIN tree |-> 0]
    /\ findPending = <<>>
    /\ soyInFlight = 0
    /\ jsInFlight = 0
    /\ cssInFlight = 0
    /\ endCalls = 0
    /\ endFrom = "none"
    /\ startedSinceEnd = FALSE
    /\ burstJs = <<>>
    /\ burstCss = <<>>
    /\ lastFire = <<>>
    /\ pendingAtTeardown = FALSE
    /\ changes = 0
    /\ soyCmd = <<>>
    /\ jsCmd = noCmd
    /\ cssData = <<>>
    /\ Unnamed

(* run() with the idle check made before the startup decisions. *)
RunCheckEndFirst ==
    /\ phase = "new"
    /\ phase' = "run"
    /\ findPending' = IF dontWatchFiles THEN <<>>
                      ELSE externPaths \o jsPaths \o cssPaths
    /\ endCalls' = checkEnd_(compilingJs_, compilingCss_, endCalls)
    /\ IF shouldCompileJs_ THEN compileJs_ ELSE untouchedJs
    /\ IF shouldCompileCss_ THEN compileCss_ ELSE untouchedCss
    /\ Noted("run")
    /\ UNCHANGED <<config, named, notifications, mtime, artifactCss, now,
                   files, fileChangedJs, fileChangedCss, fileChangedTimer,
                   fileChangeMap, bursts, fires, changes>>

(* run() subscribing whatever dontWatchFiles says. *)
RunWatching ==
    /\ phase = "new"
    /\ phase' = "run"
    /\ findPending' = externPaths \o jsPaths \o cssPaths
    /\ IF shouldCompileJs_ THEN compileJs_ ELSE untouchedJs
    /\ IF shouldCompileCss_ THEN compileCss_ ELSE untouchedCss
    /\ endCalls' = checkEnd_(compilingJs_', compilingCss_', endCalls)
    /\ Noted("run")
    /\ UNCHANGED <<config, named, notifications, mtime, artifactCss, now,
                   files, fileChangedJs, fileChangedCss, fileChangedTimer,
                   fileChangeMap, bursts, fires, changes>>

(* run(): watch_, the two startup decisions, then checkEnd_. *)
Run ==
    /\ phase = "new"
    /\ phase' = "run"
    /\ findPending' = IF dontWatchFiles THEN <<>>
                      ELSE externPaths \o jsPaths \o cssPaths
    /\ IF shouldCompileJs_ THEN compileJs_ ELSE untouchedJs
    /\ IF shouldCompileCss_ THEN compileCss_ ELSE untouchedCss
    /\ endCalls' = checkEnd_(compilingJs_', compilingCss_', endCalls)
    /\ Noted("run")
    /\ UNCHANGED <<config, named, notifications, mtime, artifactCss, now,
                   files, fileChangedJs, fileChangedCss, fileChangedTimer,
                   fileChangeMap, bursts, fires, changes>>

(* terminate(): unwatch_ unless watching is disabled. *)
Terminate ==
    /\ phase = "run"
    /\ phase' = "terminated"
    /\ files' = IF dontWatchFiles THEN files ELSE <<>>
    /\ pendingAtTeardown' = (fileChangedTimer # 0)
    /\ UNCHANGED <<config, named, notifications, disk, now, flags,
                   fileChangedJs, fileChangedCss, fileChangedTimer,
                   fileChangeMap, findPending, inflight, ends,
                   startedSinceEnd, bursts, lastFire, changes, cmds>>

(* The callback of one `find` of watch_: every path found is pushed to     *)
(* this.files and subscribed with fs.watchFile.                            *)
WatchFound(i) ==
    /\ i \in 1..Len(findPending)
    /\ files' = files \o findGrep(findPending[i])
    /\ findPending' = SubSeq(findPending, 1, i - 1)
                      \o SubSeq(findPending, i + 1, Len(findPending))
    /\ UNCHANGED <<config, named, notifications, disk, now, phase, flags,
                   fileChangedJs, fileChangedCss, fileChangedTimer,
                   fileChangeMap, inflight, ends, startedSinceEnd, bursts,
                   fires, changes, cmds>>

(* The listener of fs.watchFile accepts the notification (curr, prev). *)
Accepted(file, currMTime, prevMTime) ==
    ~(currMTime <= prevMTime
      \/ (fileChangeMap[file] # 0 /\ fileChangeMap[file] >= currMTime))

(* The deadline left by a rearm that keeps a pending timer. *)
rearmKeepPending_(timer) ==
    IF timer # 0 THEN timer ELSE now + Debounce

(* clearTimeout(this.fileChangedTimer); setTimeout(..., 500): the deadline *)
(* of the timer onFileChange_ leaves pending.                              *)
rearm_(timer) == now + Debounce

(* onFileChange_(file): classify, then rearm the debounce timer. *)
onFileChange_(file) ==
    /\ IF Matches(PathStr(file), ExtJsSoy)
       THEN /\ fileChangedJs' = TRUE
            /\ burstJs' = Append(burstJs, now)
            /\ UNCHANGED <<fileChangedCss, burstCss>>
       ELSE IF Matches(PathStr(file), ExtCssLess)
       THEN /\ fileChangedCss' = TRUE
            /\ burstCss' = Append(burstCss, now)
            /\ UNCHANGED <<fileChangedJs, burstJs>>
       ELSE UNCHANGED <<fileChangedJs, fileChangedCss, burstJs, burstCss>>
    /\ fileChangedTimer' = rearm_(fileChangedTimer)

(* A source file is saved. *)
Saved(file) ==
    /\ file \in DOMAIN tree
    /\ ~tree[file].isDir
    /\ mtime[file] # now
    /\ changes < MaxChanges
    /\ changes' = changes + 1
    /\ mtime' = [mtime EXCEPT ![file] = now]

(* A watched file is saved and the poll of fs.watchFile runs the listener  *)
(* with (curr, prev).                                                      *)
FileChanged(file) ==
    /\ file \in Range(files)
    /\ Saved(file)
    /\ IF Accepted(file, now, mtime[file])
       THEN /\ fileChangeMap' = [fileChangeMap EXCEPT ![file] = now]
            /\ onFileChange_(file)
            /\ pendingAtTeardown' = FALSE
       ELSE UNCHANGED <<fileChangeMap, fileChangedJs, fileChangedCss,
                        fileChangedTimer, bursts, pendingAtTeardown>>
    /\ UNCHANGED <<config, named, notifications, artifactJs, artifactCss, now,
                   phase, flags, files, findPending, inflight, ends,
                   startedSinceEnd, lastFire, cmds>>

(* What the debounce callback finds when it runs. *)
FireContext ==
    [js |-> fileChangedJs, css |-> fileChangedCss,
     busyJs |-> compilingJs_, busyCss |-> compilingCss_,
     staleJs |-> shouldCompileJs_, staleCss |-> shouldCompileCss_,
     nJs |-> Len(burstJs), nCss |-> Len(burstCss),
     failed |-> \/ fileChangedJs /\ compilingJs_ /\ JsFlying = 0
                \/ fileChangedCss /\ compilingCss_ /\ cssInFlight = 0,
     terminated |-> phase = "terminated"]

(* The debounce callback consulting the Staleness Oracle. *)
DebounceFireStale ==
    /\ fileChangedTimer # 0
    /\ now >= fileChangedTimer
    /\ fileChangedTimer' = 0
    /\ fileChangedJs' = FALSE
    /\ fileChangedCss' = FALSE
    /\ IF fileChangedJs /\ shouldCompileJs_ THEN compileJs_ ELSE untouchedJs
    /\ IF fileChangedCss /\ shouldCompileCss_ THEN compileCss_
       ELSE untouchedCss
    /\ burstJs' = <<>>
    /\ burstCss' = <<>>
    /\ lastFire' = FireContext
    /\ pendingAtTeardown' = FALSE
    /\ UNCHANGED ends
    /\ Noted("fire")
    /\ UNCHANGED <<config, named, notifications, mtime, artifactCss, now,
                   phase, files, fileChangeMap, findPending, changes>>

(* The debounce callback leaving alone a kind whose busy flag is set. *)
DebounceFireIfIdle ==
    /\ fileChangedTimer # 0
    /\ now >= fileChangedTimer
    /\ fileChangedTimer' = 0
    /\ fileChangedJs' = FALSE
    /\ fileChangedCss' = FALSE
    /\ IF fileChangedJs /\ ~compilingJs_ THEN compileJs_ ELSE untouchedJs
    /\ IF fileChangedCss /\ ~compilingCss_ THEN compileCss_
       ELSE untouchedCss
    /\ burstJs' = <<>>
    /\ burstCss' = <<>>
    /\ lastFire' = FireContext
    /\ pendingAtTeardown' = FALSE
    /\ UNCHANGED ends
    /\ Noted("fire")
    /\ UNCHANGED <<config, named, notifications, mtime, artifactCss, now,
                   phase, files, fileChangeMap, findPending, changes>>

(* The setTimeout callback of onFileChange_. *)
DebounceFire ==
    /\ fileChangedTimer # 0
    /\ now >= fileChangedTimer
    /\ fileChangedTimer' = 0
    /\ fileChangedJs' = FALSE
    /\ fileChangedCss' = FALSE
    /\ IF fileChangedJs THEN compileJs_ ELSE untouchedJs
    /\ IF fileChangedCss THEN compileCss_ ELSE untouchedCss
    /\ burstJs' = <<>>
    /\ burstCss' = <<>>
    /\ lastFire' = FireContext
    /\ pendingAtTeardown' = FALSE
    /\ UNCHANGED ends
    /\ Noted("fire")
    /\ UNCHANGED <<config, named, notifications, mtime, artifactCss, now,
                   phase, files, fileChangeMap, findPending, changes>>

(* The exec callback of compileJs_ (the soy transpiler). *)
SoyCallback(ok) ==
    /\ soyInFlight > 0
    /\ soyInFlight' = soyInFlight - 1
    /\ soyCmd' = IF soyInFlight' = 0 THEN <<>> ELSE soyCmd
    /\ IF ok THEN compileJsFinal_(soyJsPath)
       ELSE UNCHANGED <<jsInFlight, artifactJs, jsCmd>>
    /\ UNCHANGED <<config, named, notifications, mtime, artifactCss, now,
                   phase, flags, watcher, cssInFlight, ends, startedSinceEnd,
                   bursts, fires, changes, cssData>>

(* The exec callback of compileJsFinal_ clearing both busy flags. *)
JsCallbackBoth(ok) ==
    /\ jsInFlight > 0
    /\ jsInFlight' = jsInFlight - 1
    /\ IF ok
       THEN /\ artifactJs' = now
            /\ compilingJs_' = FALSE
            /\ compilingCss_' = FALSE
            /\ endCalls' = checkEnd_(compilingJs_', compilingCss_', endCalls)
       ELSE UNCHANGED <<artifactJs, compilingJs_, compilingCss_, endCalls>>
    /\ Noted("js")
    /\ jsCmd' = IF jsInFlight' = 0 THEN noCmd ELSE jsCmd
    /\ UNCHANGED <<config, named, notifications, mtime, artifactCss, now,
                   phase, watcher, soyInFlight, cssInFlight, bursts, fires,
                   changes, soyCmd, cssData>>

(* The exec callback of compileJsFinal_ (the closure compiler): on success *)
(* the command's output has been written to the artifact.                  *)
JsCallback(ok) ==
    /\ jsInFlight > 0
    /\ jsInFlight' = jsInFlight - 1
    /\ IF ok
       THEN /\ artifactJs' = now
            /\ compilingJs_' = FALSE
            /\ endCalls' = checkEnd_(compilingJs_', compilingCss_, endCalls)
       ELSE UNCHANGED <<artifactJs, compilingJs_, endCalls>>
    /\ UNCHANGED compilingCss_
    /\ Noted("js")
    /\ jsCmd' = IF jsInFlight' = 0 THEN noCmd ELSE jsCmd
    /\ UNCHANGED <<config, named, notifications, mtime, artifactCss, now,
                   phase, watcher, soyInFlight, cssInFlight, bursts, fires,
                   changes, soyCmd, cssData>>

(* The less.render callback without its fs.writeFileSync. *)
CssCallbackNoWrite(ok) ==
    /\ cssInFlight > 0
    /\ cssInFlight' = cssInFlight - 1
    /\ IF ok
       THEN /\ compilingCss_' = FALSE
            /\ endCalls' = checkEnd_(compilingJs_, compilingCss_', endCalls)
       ELSE UNCHANGED <<compilingCss_, endCalls>>
    /\ UNCHANGED <<compilingJs_, artifactCss>>
    /\ Noted("css")
    /\ cssData' = IF cssInFlight' = 0 THEN <<>> ELSE cssData
    /\ UNCHANGED <<config, named, notifications, mtime, artifactJs, now,
                   phase, watcher, soyInFlight, jsInFlight, bursts, fires,
                   changes, soyCmd, jsCmd>>

(* The less.render callback of compileCss_. *)
CssCallback(ok) ==
    /\ cssInFlight > 0
    /\ cssInFlight' = cssInFlight - 1
    /\ IF ok
       THEN /\ artifactCss' = now
            /\ compilingCss_' = FALSE
            /\ endCalls' = checkEnd_(compilingJs_, compilingCss_', endCalls)
       ELSE UNCHANGED <<artifactCss, compilingCss_, endCalls>>
    /\ UNCHANGED compilingJs_
    /\ Noted("css")
    /\ cssData' = IF cssInFlight' = 0 THEN <<>> ELSE cssData
    /\ UNCHANGED <<config, named, notifications, mtime, artifactJs, now,
                   phase, watcher, soyInFlight, jsInFlight, bursts, fires,
                   changes, soyCmd, jsCmd>>

(* Time passes. *)
Tick ==
    /\ now < MaxTime
    /\ now' = now + 1
    /\ UNCHANGED <<config, named, notifications, disk, phase, flags, watcher,
                   inflight, ends, startedSinceEnd, bursts, fires, changes,
                   cmds>>

Next ==
    \/ Run
    \/ Terminate
    \/ \E i \in 1..2 : WatchFound(i)
    \/ \E file \in SourceFiles : FileChanged(file)
    \/ DebounceFire
    \/ \E ok \in BOOLEAN : SoyCallback(ok)
    \/ \E ok \in BOOLEAN : JsCallback(ok)
    \/ \E ok \in BOOLEAN : CssCallback(ok)
    \/ Tick

Spec == Init /\ [][Next]_vars

(***************************************************************************)
(* The same system with its scheduling: node calls run() once the script   *)
(* has constructed the coordinator, every collaborator invocation calls    *)
(* back (with either result), every `find` calls back, time passes and a   *)
(* timer that is due fires.  File changes are not fair: they stop.         *)
(***************************************************************************)
Fairness ==
    /\ WF_vars(Run)
    /\ WF_vars(\E i \in 1..2 : WatchFound(i))
    /\ WF_vars(DebounceFire)
    /\ WF_vars(\E ok \in BOOLEAN : SoyCallback(ok))
    /\ WF_vars(\E ok \in BOOLEAN : JsCallback(ok))
    /\ WF_vars(\E ok \in BOOLEAN : CssCallback(ok))
    /\ WF_vars(Tick)

(* The completion callback is supplied. *)
LiveInit == Init /\ endCallback

LiveSpec == LiveInit /\ [][Next]_vars /\ Fairness

(***************************************************************************)
(* The command-line build: no watching, and an endCallback that ends the   *)
(* process (process.exit); the command is then run again on the disk the   *)
(* last build left.  The root-path lists name directories, single files,   *)
(* a path that does not exist, the directory named ._ and the backup copy. *)
(***************************************************************************)
JsRootLists ==
    {<<>>, <<JsDir>>, <<FileA, JsDir>>, <<FileA, DotDir>>, <<DotDir, FileA>>,
     <<LostDir, JsDir>>, <<JsDir, LostDir>>, <<FileB>>}
CssRootLists == {<<>>, <<CssDir>>, <<LostDir, CssDir>>}

(* The fields of a new object and the history of a new process. *)
Constructed ==
    /\ phase = "new"
    /\ compilingJs_ = FALSE
    /\ compilingCss_ = FALSE
    /\ files = <<>>
    /\ fileChangedJs = FALSE
    /\ fileChangedCss = FALSE
    /\ fileChangedTimer = 0
    /\ fileChangeMap = [p \in DOMAIN tree |-> 0]
    /\ endCalls = 0
    /\ endFrom = "none"
    /\ startedSinceEnd = FALSE

BuildInit ==
    /\ jsPaths \in JsRootLists
    /\ externPaths = <<>>
    /\ cssPaths \in CssRootLists
    /\ dontWatchFiles = TRUE
    /\ endCallback = TRUE
    /\ tree \in {BigTreeWith(FALSE), BigTreeWith(TRUE)}
    /\ mtime \in [DOMAIN tree -> InitTimes]
    /\ \A p \in DOMAIN tree : p # FileA => mtime[p] = 1
    /\ artifactJs \in {0} \cup InitTimes
    /\ artifactCss \in {0, StartTime}
    /\ now = StartTime
    /\ Constructed
    /\ findPending = <<>>
    /\ soyInFlight = 0
    /\ jsInFlight = 0
    /\ cssInFlight = 0
    /\ burstJs = <<>>
    /\ burstCss = <<>>
    /\ lastFire = <<>>
    /\ pendingAtTeardown = FALSE
    /\ changes = 0
    /\ soyCmd = <<>>
    /\ jsCmd = noCmd
    /\ cssData = <<>>
    /\ Unnamed

(* A source file is saved while nothing watches it. *)
Save(file) ==
    /\ Saved(file)
    /\ UNCHANGED <<config, named, notifications, artifactJs, artifactCss, now,
                   phase, flags, watcher, inflight, ends, startedSinceEnd,
                   bursts, fires, cmds>>

(* The process has ended in its endCallback and the command is run again:  *)
(* a new object is constructed from the same options.                      *)
Restart ==
    /\ phase = "run"
    /\ endCalls > 0
    /\ AllFlying = 0
    /\ phase' = "new"
    /\ compilingJs_' = FALSE
    /\ compilingCss_' = FALSE
    /\ files' = <<>>
    /\ fileChangedJs' = FALSE
    /\ fileChangedCss' = FALSE
    /\ fileChangedTimer' = 0
    /\ fileChangeMap' = [p \in DOMAIN tree |-> 0]
    /\ endCalls' = 0
    /\ endFrom' = "none"
    /\ startedSinceEnd' = FALSE
    /\ UNCHANGED <<config, named, notifications, disk, now, findPending,
                   inflight, bursts, fires, changes, cmds>>

BuildNext ==
    \/ Run
    \/ \E ok \in BOOLEAN : SoyCallback(ok)
    \/ \E ok \in BOOLEAN : JsCallback(ok)
    \/ \E ok \in BOOLEAN : CssCallback(ok)
    \/ \E file \in {FileA, FileC, FileS} : Save(file)
    \/ Restart
    \/ Tick

BuildSpec == BuildInit /\ [][BuildNext]_vars


(***************************************************************************)
(* Fingerprinted artifact names: coordinators are constructed one after    *)
(* the other from options that name the same characters in different       *)
(* fields and arrays, while the earlier one watches and compiles.          *)
(***************************************************************************)
NameAb == <<"a", "b">>
HashJsLists == {<<>>, <<JsDir>>, <<FileA>>, <<JsDir, <<NameA>>>>}
HashExternLists == {<<>>, <<<<NameA>>>>}

HashInit ==
    /\ jsPaths \in HashJsLists
    /\ externPaths \in HashExternLists
    /\ cssPaths = <<>>
    /\ dontWatchFiles \in BOOLEAN
    /\ endCallback \in BOOLEAN
    /\ tree = TreeWith(FALSE)
    /\ mtime = [p \in DOMAIN tree |-> 1]
    /\ artifactJs = 0
    /\ artifactCss = StartTime
    /\ now = StartTime
    /\ Constructed
    /\ findPending = <<>>
    /\ soyInFlight = 0
    /\ jsInFlight = 0
    /\ cssInFlight = 0
    /\ burstJs = <<>>
    /\ burstCss = <<>>
    /\ lastFire = <<>>
    /\ pendingAtTeardown = FALSE
    /\ changes = 0
    /\ soyCmd = <<>>
    /\ jsCmd = noCmd
    /\ cssData = <<>>
    /\ moduleName \in {DefaultModuleName, NameAb}
    /\ debug \in BOOLEAN
    /\ useHash \in BOOLEAN
    /\ hash = newHash_(jsPaths, externPaths, cssPaths, moduleName, debug,
                       useHash, dontWatchFiles, endCallback)
    /\ previous = <<>>
    /\ notifications = <<>>

(* new UberCompiler(options): the constructor of a second coordinator,     *)
(* called while no callback of the one it replaces is outstanding.         *)
UberCompiler(js, ext, cb) ==
    /\ previous = <<>>
    /\ AllFlying = 0
    /\ findPending = <<>>
    /\ phase # "new"
    /\ jsPaths' = js
    /\ externPaths' = ext
    /\ endCallback' = cb
    /\ hash' = newHash_(js, ext, cssPaths, moduleName, debug, useHash,
                        dontWatchFiles, cb)
    /\ previous' = [jsPaths |-> jsPaths, externPaths |-> externPaths,
                    endCallback |-> endCallback, hash |-> hash,
                    watching |-> files # <<>>,
                    busy |-> compilingJs_ \/ compilingCss_]
    /\ phase' = "new"
    /\ compilingJs_' = FALSE
    /\ compilingCss_' = FALSE
    /\ files' = <<>>
    /\ fileChangedJs' = FALSE
    /\ fileChangedCss' = FALSE
    /\ fileChangedTimer' = 0
    /\ fileChangeMap' = [p \in DOMAIN tree |-> 0]
    /\ endCalls' = 0
    /\ endFrom' = "none"
    /\ startedSinceEnd' = FALSE
    /\ UNCHANGED <<cssPaths, dontWatchFiles, tree, disk, now, findPending,
                   inflight, bursts, fires, changes, cmds, moduleName, debug,
                   useHash, notifications>>

HashNext ==
    \/ Run
    \/ Terminate
    \/ \E i \in 1..2 : WatchFound(i)
    \/ \E ok \in BOOLEAN : JsCallback(ok)
    \/ \E js \in HashJsLists, ext \in HashExternLists, cb \in BOOLEAN :
          UberCompiler(js, ext, cb)

HashSpec == HashInit /\ [][HashNext]_vars


(***************************************************************************)
(* The listeners of fs.watchFile: a path that two root paths lead to is    *)
(* subscribed twice, and one change of its stat calls both listeners with  *)
(* the same (curr, prev).  The stat of a file changes in any way: its      *)
(* modification time moves forward, moves back (a restored copy, a removed *)
(* file) or stays (only another field of the stat changed).                *)
(***************************************************************************)
MaxPolls == MaxChanges + 1
WatchJsLists == {<<JsDir>>, <<JsDir, FileA>>}

WatchInit ==
    /\ jsPaths \in WatchJsLists
    /\ externPaths = <<>>
    /\ cssPaths = <<CssDir>>
    /\ dontWatchFiles = FALSE
    /\ endCallback = FALSE
    /\ tree = TreeWith(FALSE)
    /\ mtime \in [DOMAIN tree -> InitTimes]
    /\ \A p \in DOMAIN tree : p # FileA => mtime[p] = 1
    /\ artifactJs = StartTime
    /\ artifactCss = StartTime
    /\ now = StartTime
    /\ Constructed
    /\ findPending = <<>>
    /\ soyInFlight = 0
    /\ jsInFlight = 0
    /\ cssInFlight = 0
    /\ burstJs = <<>>
    /\ burstCss = <<>>
    /\ lastFire = <<>>
    /\ pendingAtTeardown = FALSE
    /\ changes = 0
    /\ soyCmd = <<>>
    /\ jsCmd = noCmd
    /\ cssData = <<>>
    /\ Unnamed

(* The subscriptions of this.files to the path. *)
Subscriptions(file) == {i \in 1..Len(files) : files[i] = file}

RECURSIVE Repeat(_, _)
Repeat(x, k) == IF k = 0 THEN <<>> ELSE <<x>> \o Repeat(x, k - 1)

(* A poll of fs.watchFile finds the stat of a subscribed path changed, its *)
(* modification time now being currMTime: every listener subscribed to the *)
(* path is to be called with (curr, prev).                                 *)
StatChanged(file, currMTime) ==
    /\ notifications = <<>>
    /\ Subscriptions(file) # {}
    /\ changes < MaxPolls
    /\ changes' = changes + 1
    /\ mtime' = [mtime EXCEPT ![file] = currMTime]
    /\ notifications' =
          Repeat([file |-> file, curr |-> currMTime, prev |-> mtime[file]],
                 Cardinality(Subscriptions(file)))
    /\ UNCHANGED <<config, named, artifactJs, artifactCss, now, phase, flags,
                   watcher, inflight, ends, startedSinceEnd, bursts, fires,
                   cmds>>

(* The listener that accepts all that the stat says is newer. *)
ListenerPrevOnly ==
    /\ notifications # <<>>
    /\ notifications' = Tail(notifications)
    /\ LET n == Head(notifications)
       IN  IF n.curr > n.prev
           THEN /\ fileChangeMap' = [fileChangeMap EXCEPT ![n.file] = n.curr]
                /\ onFileChange_(n.file)
                /\ pendingAtTeardown' = FALSE
           ELSE UNCHANGED <<fileChangeMap, fileChangedJs, fileChangedCss,
                            fileChangedTimer, bursts, pendingAtTeardown>>
    /\ UNCHANGED <<config, named, disk, now, phase, flags, files,
                   findPending, inflight, ends, startedSinceEnd, lastFire,
                   changes, cmds>>

(* The listener given to fs.watchFile is called with (curr, prev). *)
Listener ==
    /\ notifications # <<>>
    /\ notifications' = Tail(notifications)
    /\ LET n == Head(notifications)
       IN  IF Accepted(n.file, n.curr, n.prev)
           THEN /\ fileChangeMap' = [fileChangeMap EXCEPT ![n.file] = n.curr]
                /\ onFileChange_(n.file)
                /\ pendingAtTeardown' = FALSE
           ELSE UNCHANGED <<fileChangeMap, fileChangedJs, fileChangedCss,
                            fileChangedTimer, bursts, pendingAtTeardown>>
    /\ UNCHANGED <<config, named, disk, now, phase, flags, files,
                   findPending, inflight, ends, startedSinceEnd, lastFire,
                   changes, cmds>>

WatchNext ==
    \/ Run
    \/ \E i \in 1..3 : WatchFound(i)
    \/ \E file \in {FileA, FileS}, currMTime \in 0..MaxTime :
          StatChanged(file, currMTime)
    \/ Listener

WatchSpec == WatchInit /\ [][WatchNext]_vars


(***************************************************************************)
(* Properties.                                                             *)
(***************************************************************************)
RunStep == phase = "new" /\ phase' = "run"
FireStep == fileChangedTimer # 0 /\ fileChangedTimer' = 0
EndStep == endCalls' # endCalls

(* C1: when a collaborator's callback ends a run of a kind (a failed       *)
(* transpile, a compile, a style process), that kind's busy flag is false  *)
(* afterwards, whether the collaborator succeeded or failed.               *)
C1_BusyClearedOnCallback ==
    [][/\ jsInFlight' < jsInFlight => ~compilingJs_'
       /\ (soyInFlight' < soyInFlight /\ jsInFlight' = jsInFlight)
             => ~compilingJs_'
       /\ cssInFlight' < cssInFlight => ~compilingCss_']_vars

(* C2: whenever endCallback is invoked, no collaborator invocation of      *)
(* either kind is in flight.                                               *)
C2_EndWhenNothingInFlight ==
    [][EndStep => AllFlying' = 0]_vars

(* C3: a kind with a collaborator invocation in flight has its busy flag   *)
(* set.                                                                    *)
C3_BusyWhileInFlight ==
    /\ JsFlying > 0 => compilingJs_
    /\ cssInFlight > 0 => compilingCss_

(* C4: endCallback is invoked only in states where both busy flags are     *)
(* false.                                                                  *)
C4_EndOnlyWhenBothIdle ==
    [][EndStep => ~compilingJs_' /\ ~compilingCss_']_vars

(* C4, witness: both pipelines have completed and the closure compiler's   *)
(* callback invoked endCallback after the style artifact was written.      *)
C4_Witness ==
    /\ endCalls = 1
    /\ endFrom = "js"
    /\ artifactCss > StartTime
    /\ ~compilingJs_
    /\ ~compilingCss_

(* C5 as claimed: a run() invokes endCallback only if it started a         *)
(* pipeline.                                                               *)
C5_EndOnlyIfStarted ==
    [][RunStep /\ EndStep => AllFlying' > 0]_vars

(* C5 as amended: run() invokes endCallback, once, exactly when a callback *)
(* was supplied and the run started neither kind.                          *)
C5_RunEndsIffNothingStarted ==
    [][RunStep =>
          /\ endCalls' \in {endCalls, endCalls + 1}
          /\ EndStep <=> (endCallback /\ AllFlying' = 0)]_vars

(* C5, witness: a run() that started nothing has invoked endCallback. *)
C5_Witness ==
    /\ phase = "run"
    /\ endFrom = "run"
    /\ endCalls = 1
    /\ AllFlying = 0
    /\ ~compilingJs_
    /\ ~compilingCss_

(* The kind has no root paths, or its artifact is newer than every input. *)
Fresh(inputPaths, outputTime, fileExtensions) ==
    \/ inputPaths = <<>>
    \/ /\ outputTime # 0
       /\ \A f \in Range(findAll(inputPaths, fileExtensions)) :
             mtime[f] < outputTime

(* C6: a run() that finds neither kind stale issues no collaborator        *)
(* invocation and invokes the supplied endCallback before it returns.      *)
C6_FreshRunSettlesAtOnce ==
    [][(/\ RunStep
        /\ Fresh(jsPaths, artifactJs, ExtJsSoy)
        /\ Fresh(cssPaths, artifactCss, ExtCssLess))
       => /\ UNCHANGED inflight
          /\ UNCHANGED flags
          /\ endCallback => endCalls' = endCalls + 1]_vars

(* C6, witness: both kinds are configured, both artifacts are newer than   *)
(* every input, and the run() has invoked endCallback without starting a   *)
(* collaborator.                                                           *)
C6_Witness ==
    /\ endFrom = "run"
    /\ endCalls = 1
    /\ jsPaths # <<>>
    /\ cssPaths # <<>>
    /\ artifactJs # 0
    /\ \A f \in Range(findAll(jsPaths, ExtJsSoy)) : mtime[f] < artifactJs
    /\ \A f \in Range(findAll(cssPaths, ExtCssLess)) : mtime[f] < artifactCss
    /\ AllFlying = 0

(* C7: between two consecutive endCallback invocations some kind goes      *)
(* from Idle to Running.                                                   *)
C7_OncePerSettledWindow ==
    [][EndStep /\ endCalls > 0 => startedSinceEnd]_vars

(* C8: the accepted changes of a kind that arrive within the debounce      *)
(* window of each other lead to exactly one pipeline invocation for the    *)
(* kind, issued no earlier than the window after the last of them: a       *)
(* watcher-triggered start is a single invocation, covers every pending    *)
(* accepted change, and comes Debounce after the last; pending changes     *)
(* are dropped only by such a start, and while changes are pending the     *)
(* kind's flag is recorded and the timer is armed.                         *)
C8_DebounceCoalesces ==
    [][/\ (~RunStep /\ JsFlying' > JsFlying)
            => /\ JsFlying' = JsFlying + 1
               /\ burstJs # <<>>
               /\ burstJs' = <<>>
               /\ now >= burstJs[Len(burstJs)] + Debounce
       /\ (~RunStep /\ cssInFlight' > cssInFlight)
            => /\ cssInFlight' = cssInFlight + 1
               /\ burstCss # <<>>
               /\ burstCss' = <<>>
               /\ now >= burstCss[Len(burstCss)] + Debounce
       /\ (burstJs # <<>> /\ burstJs' = <<>>) => JsFlying' > JsFlying
       /\ (burstCss # <<>> /\ burstCss' = <<>>) => cssInFlight' > cssInFlight
       /\ burstJs' # <<>> => fileChangedJs' /\ fileChangedTimer' # 0
       /\ burstCss' # <<>> => fileChangedCss' /\ fileChangedTimer' # 0]_vars

(* C8, witness: one debounce callback has served two accepted js-kind      *)
(* changes with a single pipeline start.                                   *)
C8_Witness ==
    /\ lastFire # <<>>
    /\ lastFire.nJs = 2
    /\ lastFire.js
    /\ lastFire.nCss = 0
    /\ JsFlying = 1

(* C9: the debounce callback starts the pipeline of every kind with a      *)
(* recorded change exactly once, whatever the Staleness Oracle would say   *)
(* and whether or not the kind is already Running.                         *)
C9_FireStartsUnconditionally ==
    [][FireStep =>
          /\ fileChangedJs => JsFlying' = JsFlying + 1 /\ compilingJs_'
          /\ fileChangedCss
                => cssInFlight' = cssInFlight + 1 /\ compilingCss_'
          /\ ~fileChangedJs => JsFlying' = JsFlying
          /\ ~fileChangedCss => cssInFlight' = cssInFlight]_vars

(* C9, witness: the debounce callback has started the script pipeline      *)
(* while it was already Running and its artifact was not stale.            *)
C9_Witness ==
    /\ lastFire # <<>>
    /\ lastFire.js
    /\ lastFire.busyJs
    /\ ~lastFire.staleJs
    /\ JsFlying >= 2

(* C10: a debounce timer that was pending when terminate() was called      *)
(* starts no pipeline and issues no collaborator invocation when it fires. *)
C10_FireAfterTerminateIsNoOp ==
    [][phase = "terminated" /\ pendingAtTeardown /\ FireStep
       => UNCHANGED inflight /\ UNCHANGED flags]_vars

(* C11: after terminate() no file is subscribed, also when terminate() was *)
(* called before a `find` of watch_ has called back.                       *)
C11_NoSubscriptionAfterTeardown ==
    phase = "terminated" => files = <<>>

(* A step that starts the script pipeline: run() finding it stale, or the  *)
(* debounce callback with a recorded script change.                        *)
JsStartStep ==
    \/ RunStep /\ shouldCompileJs_
    \/ FireStep /\ fileChangedJs

(* C12: with a template source discovered, a pipeline start issues the     *)
(* transpile command and no compile command, a compile command is issued   *)
(* only by the step in which a transpile command calls back, and its       *)
(* inputs end with the transpiled intermediate, after every discovered     *)
(* script file; with no template source discovered no transpile command    *)
(* is ever issued and a pipeline start issues exactly one compile command, *)
(* without the intermediate.                                               *)
C12_StagesInSequence ==
    [][IF findAll(jsPaths, ExtSoy) # <<>>
       THEN /\ JsStartStep => /\ soyInFlight' = soyInFlight + 1
                              /\ jsInFlight' = jsInFlight
            /\ jsInFlight' > jsInFlight
                  => /\ soyInFlight' = soyInFlight - 1
                     /\ jsInFlight' = jsInFlight + 1
                     /\ jsCmd'.js[Len(jsCmd'.js)] = soyJsPath
                     /\ \A f \in Range(findAll(jsPaths, ExtJs)) :
                           \E i \in 1..(Len(jsCmd'.js) - 1) :
                               jsCmd'.js[i] = f
       ELSE /\ soyInFlight' = 0
            /\ JsStartStep => /\ jsInFlight' = jsInFlight + 1
                              /\ soyJsPath \notin Range(jsCmd'.js)
            /\ jsInFlight' > jsInFlight => JsStartStep]_vars

(* C12, witness: a template source exists, the transpile command has       *)
(* called back, and the compile command in flight takes the intermediate   *)
(* as its last input, after a.js.                                          *)
C12_Witness ==
    /\ findAll(jsPaths, ExtSoy) # <<>>
    /\ soyInFlight = 0
    /\ jsInFlight = 1
    /\ jsCmd.js[1] = FileA
    /\ jsCmd.js[Len(jsCmd.js)] = soyJsPath

(* The path f lies at or under the root, with no backup name below the     *)
(* root.                                                                   *)
Under(root, f) ==
    /\ Len(f) >= Len(root)
    /\ SubSeq(f, 1, Len(root)) = root
    /\ \A k \in (Len(root) + 1)..Len(f) : ~IsBackup(f[k])

(* The input files of a kind: the files of the tree at or under one of     *)
(* the root paths that match the kind's pattern.                           *)
Discovered(inputPaths, fileExtensions) ==
    {f \in DOMAIN tree :
        /\ ~tree[f].isDir
        /\ Matches(PathStr(f), fileExtensions)
        /\ \E i \in 1..Len(inputPaths) : Under(inputPaths[i], f)}

(* The policy of the Staleness Oracle. *)
Policy(inputPaths, outputTime, fileExtensions) ==
    /\ inputPaths # <<>>
    /\ \/ outputTime = 0
       \/ \E f \in Discovered(inputPaths, fileExtensions) :
             mtime[f] > outputTime

(* C13: run() starts a kind exactly when the policy asks for it: never     *)
(* with an empty root-path list, otherwise always with the artifact        *)
(* absent, otherwise iff some discovered input file of the kind is         *)
(* strictly newer than the artifact.                                       *)
C13_OraclePolicy ==
    [][RunStep =>
          /\ compilingJs_' <=> Policy(jsPaths, artifactJs, ExtJsSoy)
          /\ compilingCss_' <=> Policy(cssPaths, artifactCss, ExtCssLess)]_vars

(* C13, witness: run() has left the script kind alone with an artifact     *)
(* exactly as old as its newest input, and has started the style kind,     *)
(* whose artifact is absent.                                               *)
C13_Witness ==
    /\ phase = "run"
    /\ endCalls = 0
    /\ artifactJs # 0
    /\ \E f \in Discovered(jsPaths, ExtJsSoy) : mtime[f] = artifactJs
    /\ \A f \in Discovered(jsPaths, ExtJsSoy) : mtime[f] <= artifactJs
    /\ ~compilingJs_
    /\ JsFlying = 0
    /\ artifactCss = 0
    /\ compilingCss_
    /\ cssInFlight = 1

(* The last invocation of the kind in flight calls back with success. *)
JsDoneStep == jsInFlight' < jsInFlight /\ JsFlying' = 0 /\ ~compilingJs_'
CssDoneStep == cssInFlight' < cssInFlight /\ cssInFlight' = 0 /\ ~compilingCss_'

(* The policy of the Staleness Oracle on the disk a step leaves. *)
StaleAfter(inputPaths, outputTime, fileExtensions) ==
    /\ inputPaths # <<>>
    /\ \/ outputTime = 0
       \/ \E f \in Discovered(inputPaths, fileExtensions) :
             mtime'[f] > outputTime

(* C14: when a kind's pipeline completes successfully the Staleness Oracle *)
(* reports the kind as not stale; a kind that is not stale stays so in     *)
(* every step that modifies no source file; and a run() that finds a kind  *)
(* not stale issues no collaborator invocation for it.                     *)
C14_BuiltArtifactIsCached ==
    [][/\ JsDoneStep => ~StaleAfter(jsPaths, artifactJs', ExtJsSoy)
       /\ CssDoneStep => ~StaleAfter(cssPaths, artifactCss', ExtCssLess)
       /\ (~shouldCompileJs_ /\ mtime' = mtime)
             => ~StaleAfter(jsPaths, artifactJs', ExtJsSoy)
       /\ (~shouldCompileCss_ /\ mtime' = mtime)
             => ~StaleAfter(cssPaths, artifactCss', ExtCssLess)
       /\ (RunStep /\ ~shouldCompileJs_)
             => /\ ~compilingJs_'
                /\ UNCHANGED <<soyInFlight, jsInFlight>>
       /\ (RunStep /\ ~shouldCompileCss_)
             => /\ ~compilingCss_'
                /\ UNCHANGED cssInFlight]_vars

(* C14, witness: an earlier process built both artifacts and ended, a.js   *)
(* was last saved before that, and the run() of the next process has       *)
(* started nothing.                                                        *)
C14_Witness ==
    /\ phase = "run"
    /\ endFrom = "run"
    /\ jsPaths # <<>>
    /\ cssPaths # <<>>
    /\ artifactJs > StartTime
    /\ artifactCss > StartTime
    /\ mtime[FileA] > StartTime
    /\ FileA \in Discovered(jsPaths, ExtJsSoy)
    /\ AllFlying = 0
    /\ ~compilingJs_
    /\ ~compilingCss_

(* C15: after the failed first run of a kind (the busy flag is set, no     *)
(* invocation of the kind is in flight, and the debounce callback has not  *)
(* run yet) the kind's artifact is as the disk had it when the process     *)
(* started: absent, or with a modification time of that disk.              *)
C15_FailedRunKeepsArtifact ==
    /\ (compilingJs_ /\ JsFlying = 0 /\ lastFire = <<>>)
          => artifactJs \in {0} \cup InitTimes
    /\ (compilingCss_ /\ cssInFlight = 0 /\ lastFire = <<>>)
          => artifactCss \in {0} \cup InitTimes

(* A run of the kind has failed and nothing of the kind is in flight: the  *)
(* busy flag is left set.                                                  *)
FailedJs == compilingJs_ /\ JsFlying = 0
FailedCss == compilingCss_ /\ cssInFlight = 0

(* C16: after a failed run of a kind, while the watcher is active, an      *)
(* accepted change of the kind records the change and arms the debounce    *)
(* timer one window ahead, and the debounce callback that finds the change *)
(* recorded issues a new invocation for the kind.                          *)
C16_FailureDoesNotDisable ==
    [][phase = "run" =>
          /\ (FailedJs /\ Len(burstJs') > Len(burstJs))
                => fileChangedJs' /\ fileChangedTimer' = now + Debounce
          /\ (FailedCss /\ Len(burstCss') > Len(burstCss))
                => fileChangedCss' /\ fileChangedTimer' = now + Debounce
          /\ (FailedJs /\ fileChangedJs)
                => fileChangedJs' \/ (FireStep /\ JsFlying' = 1)
          /\ (FailedCss /\ fileChangedCss)
                => fileChangedCss' \/ (FireStep /\ cssInFlight' = 1)]_vars

(* C16, witness: the style process failed, s.less was saved afterwards,    *)
(* and the debounce callback has issued a new less.render.                 *)
C16_Witness ==
    /\ phase = "run"
    /\ lastFire # <<>>
    /\ lastFire.failed
    /\ lastFire.css
    /\ ~lastFire.js
    /\ cssInFlight = 1
    /\ cssData = <<FileS>>

(* C17: a step that starts, advances, completes or fails invocations of    *)
(* one kind only leaves the other kind's busy flag as it was.              *)
C17_PipelinesIndependent ==
    [][/\ (<<soyInFlight, jsInFlight>>' # <<soyInFlight, jsInFlight>>
           /\ cssInFlight' = cssInFlight)
             => compilingCss_' = compilingCss_
       /\ (cssInFlight' # cssInFlight
           /\ <<soyInFlight, jsInFlight>>' = <<soyInFlight, jsInFlight>>)
             => compilingJs_' = compilingJs_]_vars

(* C17, witness: both kinds are Running at the same time, each with an     *)
(* invocation in flight.                                                   *)
C17_Witness ==
    /\ compilingJs_
    /\ compilingCss_
    /\ jsInFlight > 0
    /\ cssInFlight > 0

(* The name begins with the backup marker. *)
Marked(name) == Len(name) >= 2 /\ SubSeq(name, 1, 2) = <<".", "_">>

(* The scanned files among the inputs of the commands in flight. *)
ScannedJs ==
    (Range(soyCmd) \cup Range(jsCmd.js))
        \ {checksJsPath, soyutilsJsPath, soyJsPath}
ScannedCss == Range(cssData)

(* The scanner reached f from one of the roots without returning a marked  *)
(* name and without entering a marked directory.                           *)
CleanUnder(inputPaths, f) ==
    /\ ~Marked(f[Len(f)])
    /\ \E i \in 1..Len(inputPaths) :
          /\ Len(f) >= Len(inputPaths[i])
          /\ SubSeq(f, 1, Len(inputPaths[i])) = inputPaths[i]
          /\ \A k \in (Len(inputPaths[i]) + 1)..Len(f) : ~Marked(f[k])

(* C18: no scanned input of a collaborator has a final segment that begins *)
(* with the marker ._ , and none lies in a directory below its root whose  *)
(* name begins with the marker.                                            *)
C18_ScannerSkipsBackups ==
    /\ \A f \in ScannedJs : CleanUnder(jsPaths, f)
    /\ \A f \in ScannedCss : CleanUnder(cssPaths, f)

(* f comes before g when the tree is walked with the entries of every      *)
(* directory in lexicographic order: at the first segment where the two    *)
(* paths differ, the name of f is the smaller one.                         *)
PathLess(f, g) ==
    \E k \in 1..Len(f) :
        /\ k <= Len(g)
        /\ SubSeq(f, 1, k - 1) = SubSeq(g, 1, k - 1)
        /\ StrLess(f[k], g[k])

(* The files of a set in that order. *)
InOrder(S) ==
    CHOOSE s \in [1..Cardinality(S) -> S] :
        \A i, j \in 1..Cardinality(S) : i < j => PathLess(s[i], s[j])

(* The scan results of the root paths one after the other, in the order of *)
(* the configured list.                                                    *)
RECURSIVE RootByRoot(_, _)
RootByRoot(inputPaths, fileExtensions) ==
    IF inputPaths = <<>> THEN <<>>
    ELSE InOrder(Discovered(<<Head(inputPaths)>>, fileExtensions))
         \o RootByRoot(Tail(inputPaths), fileExtensions)

(* C19: the input list of every collaborator command in flight is the      *)
(* concatenation, in configured root-path order, of each root's files in   *)
(* lexicographic walk order (for the closure compiler followed by the      *)
(* three inputs of the template stage when a template source exists); the  *)
(* commands of a later run on the unchanged tree are therefore the same.   *)
C19_ConfiguredOrder ==
    /\ soyInFlight > 0 => soyCmd = RootByRoot(jsPaths, ExtSoy)
    /\ jsInFlight > 0
          => jsCmd.js = RootByRoot(jsPaths, ExtJs)
                        \o (IF Discovered(jsPaths, ExtSoy) # {}
                            THEN <<checksJsPath, soyutilsJsPath, soyJsPath>>
                            ELSE <<>>)
    /\ cssInFlight > 0 => cssData = RootByRoot(cssPaths, ExtCssLess)

(* C19, witness: the roots are a single file and then a directory whose   *)
(* readdir order is not sorted, and the compile command in flight takes    *)
(* ._/c.js and a.js of the directory, in that order, after the single      *)
(* file.                                                                   *)
C19_Witness ==
    /\ jsPaths = <<FileA, JsDir>>
    /\ jsInFlight = 1
    /\ SubSeq(jsCmd.js, 1, 3) = <<FileA, FileC, FileA>>

(* fs.statSync of the path succeeds. *)
Statable(p) == p \in DOMAIN tree

(* Some root path of the list cannot be stat-ed. *)
SomeLost(inputPaths) ==
    \E i \in 1..Len(inputPaths) : ~Statable(inputPaths[i])

(* C20: with a root path that cannot be stat-ed in its list, a run() that  *)
(* finds the kind's artifact absent still issues one invocation for the    *)
(* kind, and every command issued takes exactly the inputs it would take   *)
(* with that root left out of the list.                                    *)
C20_LostRootContributesNothing ==
    [][/\ SomeLost(jsPaths) =>
            /\ (RunStep /\ artifactJs = 0) => JsFlying' = JsFlying + 1
            /\ soyInFlight' > soyInFlight
                  => soyCmd' = findAll(SelectSeq(jsPaths, Statable), ExtSoy)
            /\ jsInFlight' > jsInFlight
                  => SubSeq(jsCmd'.js, 1,
                            Len(findAll(SelectSeq(jsPaths, Statable), ExtJs)))
                       = findAll(SelectSeq(jsPaths, Statable), ExtJs)
       /\ SomeLost(cssPaths) =>
            /\ (RunStep /\ artifactCss = 0)
                  => cssInFlight' = cssInFlight + 1
            /\ cssInFlight' > cssInFlight
                  => cssData'
                       = findAll(SelectSeq(cssPaths, Statable), ExtCssLess)
      ]_vars

(* C20, witness: the first root path does not exist, and the compile       *)
(* command in flight takes the script files of the second.                 *)
C20_Witness ==
    /\ jsPaths = <<LostDir, JsDir>>
    /\ jsInFlight = 1
    /\ SubSeq(jsCmd.js, 1, 2) = <<FileC, FileA>>


(* C21: two coordinators constructed from configurations with the same     *)
(* field values, array order included, have the same fingerprint, whatever *)
(* their completion callbacks are and whether or not the earlier one was   *)
(* watching files or had a pipeline marked busy.                           *)
C21_FingerprintIsPure ==
    (/\ previous # <<>>
     /\ previous.jsPaths = jsPaths
     /\ previous.externPaths = externPaths)
       => previous.hash = hash

C21_Witness ==
    /\ previous # <<>>
    /\ useHash
    /\ previous.jsPaths = jsPaths
    /\ previous.externPaths = externPaths
    /\ jsPaths # <<>>
    /\ previous.endCallback # endCallback
    /\ previous.watching
    /\ previous.busy
    /\ previous.hash = hash


(* C22: with dontWatchFiles set no `find` is started, no file is           *)
(* subscribed, no change is recorded and no debounce timer is armed, and   *)
(* no step other than run() starts a pipeline: no busy flag rises and the  *)
(* only invocation issued later is the closure compiler run that follows   *)
(* the soy stage of the pipeline run() started.                            *)
C22_NoWatcherWhenDisabled ==
    [][dontWatchFiles
       => /\ findPending' = <<>>
          /\ files' = <<>>
          /\ fileChangedTimer' = 0
          /\ ~fileChangedJs' /\ ~fileChangedCss'
          /\ ~RunStep
               => /\ ~(~compilingJs_ /\ compilingJs_')
                  /\ ~(~compilingCss_ /\ compilingCss_')
                  /\ soyInFlight' <= soyInFlight
                  /\ cssInFlight' <= cssInFlight
                  /\ jsInFlight' > jsInFlight
                       => soyInFlight' < soyInFlight]_vars

C22_Witness ==
    /\ dontWatchFiles
    /\ jsPaths # <<>>
    /\ cssPaths # <<>>
    /\ phase = "run"
    /\ now = MaxTime
    /\ endCalls = 1
    /\ AllFlying = 0
    /\ files = <<>>
    /\ fileChangedTimer = 0


ListenStep == notifications # <<>> /\ notifications' = Tail(notifications)
AcceptStep ==
    Len(burstJs') + Len(burstCss') > Len(burstJs) + Len(burstCss)

(* C23: a listener call is accepted only if the modification time it       *)
(* carries is greater than the previous one of the notification and        *)
(* greater than the time recorded for the file; the recorded time of a     *)
(* file changes only by growing, and only when a call is accepted; and a   *)
(* call that carries the time an earlier accepted call recorded for the    *)
(* file, as the second of two subscriptions to one file does, is not       *)
(* accepted.                                                               *)
C23_AcceptedOnlyIfNewer ==
    [][/\ \A f \in DOMAIN fileChangeMap :
             /\ fileChangeMap'[f] >= fileChangeMap[f]
             /\ fileChangeMap'[f] # fileChangeMap[f]
                  => ListenStep /\ AcceptStep /\ Head(notifications).file = f
       /\ ListenStep
            => LET n == Head(notifications)
               IN  /\ AcceptStep
                        => /\ n.curr > n.prev
                           /\ n.curr > fileChangeMap[n.file]
                           /\ fileChangeMap'[n.file] = n.curr
                   /\ n.curr = fileChangeMap[n.file] => ~AcceptStep]_vars

(* One change of a file subscribed twice: the first listener call was      *)
(* accepted and recorded the time, and the call of the second listener,    *)
(* which carries the same time, is the one left to make.                   *)
C23_Witness ==
    /\ Cardinality(Subscriptions(FileA)) = 2
    /\ Len(notifications) = 1
    /\ Head(notifications).file = FileA
    /\ Head(notifications).curr > Head(notifications).prev
    /\ Head(notifications).curr = fileChangeMap[FileA]
    /\ burstJs = <<now>>
    /\ fileChangedJs
    /\ fileChangedTimer = now + Debounce


(* The calls of fs.statSync end with the first file found newer. *)
ShortCircuits(inputPaths, outputTime, fileExtensions) ==
    LET stats == statSyncs_(inputPaths, outputTime, fileExtensions)
    IN  \A i \in 1..Len(stats) :
           mtime[stats[i]] > outputTime => i = Len(stats)

(* C24: in the scans run() makes for its two startup decisions, once an    *)
(* input file newer than the artifact has been stat-ed no further input    *)
(* file is stat-ed, in this root path or in a later one.                   *)
C24_ScanShortCircuits ==
    [][RunStep
       => /\ ShortCircuits(jsPaths, artifactJs, ExtJsSoy)
          /\ ShortCircuits(cssPaths, artifactCss, ExtCssLess)]_vars


AcceptJsStep == Len(burstJs') > Len(burstJs)
AcceptCssStep == Len(burstCss') > Len(burstCss)

(* C25 as stated: each kind has a debounce timer of its own, so a change   *)
(* of one kind accepted while only the other kind's debounce is pending    *)
(* leaves the deadline of that debounce where it was.                      *)
C25_TimerPerKind ==
    [][/\ (AcceptCssStep /\ fileChangedJs /\ ~fileChangedCss
              /\ fileChangedTimer # 0)
            => fileChangedTimer' = fileChangedTimer
       /\ (AcceptJsStep /\ fileChangedCss /\ ~fileChangedJs
              /\ fileChangedTimer # 0)
            => fileChangedTimer' = fileChangedTimer]_vars

(* C25, amended: the two kinds share one debounce timer.  An accepted      *)
(* change of either kind cancels the pending timer and arms it one window  *)
(* ahead, leaving the other kind's flag as it was; and when the timer      *)
(* fires it is no longer pending and no kind is left flagged, both kinds   *)
(* having been handled by that one callback.                               *)
C25_OneTimerForBothKinds ==
    [][/\ AcceptJsStep
            => /\ fileChangedTimer' = now + Debounce
               /\ fileChangedJs'
               /\ fileChangedCss' = fileChangedCss
       /\ AcceptCssStep
            => /\ fileChangedTimer' = now + Debounce
               /\ fileChangedCss'
               /\ fileChangedJs' = fileChangedJs
       /\ FireStep
            => /\ ~fileChangedJs' /\ ~fileChangedCss'
               /\ lastFire'.js = fileChangedJs
               /\ lastFire'.css = fileChangedCss]_vars

(* A css change accepted one tick after a js change: the one timer is due  *)
(* a window after the css change, later than a window after the js one.    *)
C25_Witness ==
    /\ fileChangedJs
    /\ fileChangedCss
    /\ Len(burstJs) = 1
    /\ Len(burstCss) = 1
    /\ burstCss[1] > burstJs[1]
    /\ fileChangedTimer = burstCss[1] + Debounce
    /\ fileChangedTimer > burstJs[1] + Debounce


(* The properties getHash_ visited in the constructor of this coordinator. *)
Visited ==
    this_(jsPaths, externPaths, cssPaths, moduleName, debug, useHash,
          dontWatchFiles, endCallback)

(* The characters getHash_ adds for a list of properties, in order. *)
RECURSIVE Concat(_)
Concat(strings) ==
    IF Len(strings) = 0 THEN <<>>
    ELSE Head(strings) \o Concat(Tail(strings))

RECURSIVE Folded(_)
Folded(props) ==
    IF props = <<>> THEN <<>>
    ELSE LET p == Head(props)
         IN  (CASE p.typeof = "object" -> Concat(p.value)
                [] p.typeof = "boolean" ->
                     IF p.value THEN <<"Y">> ELSE <<"n">>
                [] p.typeof = "string" -> p.value
                [] OTHER -> <<>>)
             \o Folded(Tail(props))

(* 31 * n + code in 32-bit two's-complement arithmetic, byte by byte: the  *)
(* bytes of n, each multiplied by 31 with the carry of the byte below, the *)
(* carry out of the top byte dropped and the top byte read as signed.      *)
Byte(n, i) == (n \div (256 ^ i)) % 256
TwosComplement31(n, code) ==
    LET s0 == 31 * Byte(n, 0) + code
        s1 == 31 * Byte(n, 1) + s0 \div 256
        s2 == 31 * Byte(n, 2) + s1 \div 256
        s3 == 31 * Byte(n, 3) + s2 \div 256
        top == s3 % 256
    IN  (s0 % 256) + 256 * (s1 % 256) + 65536 * (s2 % 256)
        + 16777216 * (IF top >= 128 THEN top - 256 ELSE top)

InInt32(n) == MinInt32 <= n /\ n <= MaxInt32
Extremes == {MinInt32, MinInt32 + 1, -1, 0, 1, MaxInt32 - 1, MaxInt32}

(* The values h are those of 32-bit two's-complement arithmetic on the     *)
(* characters codes.                                                       *)
StaysInt32(h, codes) ==
    /\ Len(h) = Len(codes) + 1
    /\ \A i \in 1..Len(codes) :
          /\ InInt32(h[i + 1])
          /\ h[i + 1] = TwosComplement31(h[i], charCodeAt(codes[i]))
    /\ \A n \in Extremes, c \in Range(codes) :
          /\ InInt32(addToHash_(n, <<c>>))
          /\ addToHash_(n, <<c>>) = TwosComplement31(n, charCodeAt(c))

(* C26: every value the hash took while the fingerprint of a new           *)
(* coordinator was computed lies in the signed 32-bit range and is         *)
(* 31 * (the value before) + (the character code) in 32-bit                *)
(* two's-complement arithmetic, the fingerprint being the last of them;    *)
(* the same holds for one character added to a starting hash at the ends   *)
(* of the range.                                                           *)
C26_HashStaysInt32 ==
    (phase = "new" /\ useHash)
       => /\ hash = <<getHash_(Visited)>>
          /\ StaysInt32(propertyHashes_(Visited, Len(Visited)),
                        Folded(Visited))

(* A coordinator was constructed with a fingerprint, and while it was      *)
(* computed 31 * hash + code left the 32-bit range upwards and the hash    *)
(* wrapped to a negative value.                                            *)
C26_Witness ==
    LET h == propertyHashes_(Visited, Len(Visited))
    IN  /\ previous # <<>>
        /\ phase = "new"
        /\ useHash
        /\ hash = <<Last(h)>>
        /\ \E i \in 1..(Len(h) - 1) :
              /\ h[i] > MaxInt32 \div 31
              /\ h[i + 1] < 0


(* The properties getHash_ visited in the constructor of the coordinator   *)
(* that was replaced.                                                      *)
VisitedBefore ==
    this_(previous.jsPaths, previous.externPaths, cssPaths, moduleName,
          debug, useHash, dontWatchFiles, previous.endCallback)

(* C27: two coordinators whose configurations give getHash_ the same       *)
(* characters in the same order have the same fingerprint, however the     *)
(* characters are divided into the strings of an array or between one      *)
(* field and the next.                                                     *)
C27_OnlyTheConcatenationCounts ==
    (previous # <<>> /\ Folded(VisitedBefore) = Folded(Visited))
       => previous.hash = hash

(* /js/a.js as one js path, then as the js path /js followed by the extern *)
(* path /a.js: two fields, one fingerprint.                                *)
C27_Witness ==
    /\ previous # <<>>
    /\ useHash
    /\ previous.jsPaths = <<FileA>>
    /\ previous.externPaths = <<>>
    /\ jsPaths = <<JsDir>>
    /\ externPaths = <<<<NameA>>>>
    /\ Folded(VisitedBefore) = Folded(Visited)
    /\ previous.hash = hash


(* Both kinds are idle, nothing is in flight, and endCallback was invoked  *)
(* after the last rise of a busy flag.                                     *)
Completed ==
    /\ ~compilingJs_
    /\ ~compilingCss_
    /\ AllFlying = 0
    /\ endCalls > 0
    /\ ~startedSinceEnd

(* C28: with an endCallback supplied, once run() was called the system     *)
(* comes to a state where both kinds are idle and endCallback has been     *)
(* invoked after the last pipeline start, whatever the collaborators       *)
(* reported.                                                               *)
C28_EventuallyCompleted == (phase = "run") ~> Completed

=============================================================================
